---- MODULE Spec2Model ----
(***************************************************************************)
(* State-machine model of the on-chain ICO sale program                    *)
(* programs/solana-ico/src/lib.rs (module ico_token_sale).                 *)
(*                                                                         *)
(* One Sale account, its token vault, the authority's token account, the   *)
(* treasury and a fixed set of buyers with their UserPurchase records.     *)
(* Every instruction is one action; a failing instruction leaves the       *)
(* accounts as they were (transaction rollback) and only records its       *)
(* error in `last`.                                                        *)
(*                                                                         *)
(* Integer widths are scaled: u64 is modelled as U64Bits wide, i64 as      *)
(* I64Bits wide, and the lamports-per-SOL factor 10^9 as LamportsPerSol.   *)
(* Unchecked Rust arithmetic (+, *, pow) either panics (overflow-checks    *)
(* on) or wraps (overflow-checks off); the build is chosen in Init.        *)
(***************************************************************************)
EXTENDS Integers, FiniteSets, Sequences, TLC

\* ------------------------------------------------------------------ bounds
U64Bits == 3
I64Bits == 3
LamportsPerSol == 2
MaxTime == 3
StartClock == 1
MaxTotal == 8
VaultSupply == 6
BuyerFunds == 3

\* --------------------------------------------------------- program constants
MaxPriceAgeLimit == 3600
NormalizedExponent == 8

MaxU64 == 2^U64Bits - 1
U64Mod == 2^U64Bits
MaxI64 == 2^(I64Bits - 1) - 1
I64Mod == 2^I64Bits

Authority == "authority"
Buyers == {"buyer1", "buyer2"}
Signers == {Authority} \cup Buyers

NoSale == [exists |-> FALSE]
NoPurchase == [exists |-> FALSE]

VARIABLES
    sale,           \* the Sale account, or NoSale before initialize_sale
    user_purchase,  \* buyer -> UserPurchase account, or NoPurchase
    sale_token_vault,       \* token balance of the sale vault
    buyer_token_account,    \* buyer -> token balance
    authority_token_account,\* token balance of the authority
    lamports,       \* buyer -> native balance
    treasury,       \* native balance of the treasury
    now,            \* Clock::get().unix_timestamp
    overflow_checks,\* TRUE: unchecked arithmetic panics; FALSE: it wraps
    last,           \* the last instruction and its result
    sum_tokens,     \* ghost: sum of token_amount over successful purchases
    sum_cost        \* ghost: sum of sol_cost over successful purchases

accounts == <<sale, user_purchase, sale_token_vault, buyer_token_account,
              authority_token_account, lamports, treasury>>
ghosts == <<sum_tokens, sum_cost>>
vars == <<sale, user_purchase, sale_token_vault, buyer_token_account,
          authority_token_account, lamports, treasury, now, overflow_checks,
          last, sum_tokens, sum_cost>>

\* ------------------------------------------------------------- arithmetic

\* Rust's unchecked `a + b` on u64: [ok, val]; not ok is a panic.
AddU64(a, b) ==
    IF a + b <= MaxU64 THEN [ok |-> TRUE, val |-> a + b]
    ELSE IF overflow_checks THEN [ok |-> FALSE, val |-> 0]
    ELSE [ok |-> TRUE, val |-> (a + b) % U64Mod]

\* Rust's unchecked `a * b` on u64.
MulU64(a, b) ==
    IF a * b <= MaxU64 THEN [ok |-> TRUE, val |-> a * b]
    ELSE IF overflow_checks THEN [ok |-> FALSE, val |-> 0]
    ELSE [ok |-> TRUE, val |-> (a * b) % U64Mod]

\* u64::checked_mul: None on overflow.
CheckedMul(a, b) ==
    IF a * b <= MaxU64 THEN [some |-> TRUE, val |-> a * b]
    ELSE [some |-> FALSE, val |-> 0]

\* u64::checked_div: None on a zero divisor; truncating otherwise.
CheckedDiv(a, b) ==
    IF b = 0 THEN [some |-> FALSE, val |-> 0]
    ELSE [some |-> TRUE, val |-> a \div b]

\* Rust's unchecked `a + b` on i64 (two's complement when it wraps).
AddI64(a, b) ==
    IF a + b <= MaxI64 /\ a + b >= -MaxI64 - 1 THEN [ok |-> TRUE, val |-> a + b]
    ELSE IF overflow_checks THEN [ok |-> FALSE, val |-> 0]
    ELSE [ok |-> TRUE,
          val |-> ((a + b + MaxI64 + 1) % I64Mod) - MaxI64 - 1]

\* 10_u64.pow(k): the power, panicking or wrapping on overflow.
Pow10U64(k) ==
    IF 10^k <= MaxU64 THEN [ok |-> TRUE, val |-> 10^k]
    ELSE IF overflow_checks THEN [ok |-> FALSE, val |-> 0]
    ELSE [ok |-> TRUE, val |-> (10^k) % U64Mod]

\* ------------------------------------------------------------ the outcome
\* The accounts an instruction works on, as it finds them.
Acc ==
    [sale |-> sale, up |-> user_purchase, vault |-> sale_token_vault,
     tok |-> buyer_token_account, auth |-> authority_token_account,
     lam |-> lamports, treasury |-> treasury]

Ok(acc, cost) == [res |-> "Ok", acc |-> acc, cost |-> cost]
\* An error return; acc is what the handler had written so far.
Err(e, acc) == [res |-> e, acc |-> acc, cost |-> 0]

\* ----------------------------------------------------------------- oracle
\* PriceUpdateV2::get_price_no_older_than: the feed's price unless too old.
get_price_no_older_than(f, max_age) ==
    IF f.publish_time + max_age >= now THEN "Ok" ELSE "PriceTooOld"

\* The normalisation of (price, exponent) to 8 decimals: [res, price].
NormalizePrice(f) ==
    IF f.exponent >= -NormalizedExponent
    THEN LET p == Pow10U64(f.exponent + NormalizedExponent) IN
         IF ~p.ok THEN [res |-> "Panic", price |-> 0]
         ELSE LET m == MulU64(f.price, p.val) IN
              IF ~m.ok THEN [res |-> "Panic", price |-> 0]
              ELSE [res |-> "Ok", price |-> m.val]
    ELSE LET p == Pow10U64(-f.exponent - NormalizedExponent) IN
         IF ~p.ok \/ p.val = 0 THEN [res |-> "Panic", price |-> 0]
         ELSE [res |-> "Ok", price |-> f.price \div p.val]

get_sol_usd_price(f, max_age) ==
    IF get_price_no_older_than(f, max_age) # "Ok"
    THEN [res |-> get_price_no_older_than(f, max_age), price |-> 0]
    ELSE IF ~(f.price > 0) THEN [res |-> "InvalidPriceData", price |-> 0]
    ELSE NormalizePrice(f)

\* ------------------------------------------------------- initialize_sale
\* #[account(init)]: refused when the Sale account exists already. The account
\* is taken to be created large enough to hold the record (space, lib.rs:337).
InitializeSaleAccounts ==
    IF sale.exists THEN "AccountAlreadyInUse" ELSE "Ok"

initialize_sale_handler(token_price_usd, max_tokens, min_purchase, max_purchase, sale_duration, max_age) ==
    IF ~(token_price_usd > 0) THEN Err("InvalidPrice", Acc)
    ELSE IF ~(max_tokens > 0) THEN Err("InvalidAmount", Acc)
    ELSE IF ~(min_purchase > 0 /\ min_purchase <= max_purchase)
    THEN Err("InvalidPurchaseLimit", Acc)
    ELSE IF ~(sale_duration > 0) THEN Err("InvalidDuration", Acc)
    ELSE IF ~(max_age > 0 /\ max_age <= MaxPriceAgeLimit)
    THEN Err("InvalidMaxAge", Acc)
    ELSE LET e == AddI64(now, sale_duration) IN
         IF ~e.ok THEN Err("Panic", Acc)
         ELSE Ok([Acc EXCEPT !.sale =
                    [exists |-> TRUE,
                     authority |-> Authority,
                     token_price_usd |-> token_price_usd,
                     max_tokens |-> max_tokens,
                     min_purchase |-> min_purchase,
                     max_purchase |-> max_purchase,
                     tokens_sold |-> 0,
                     total_raised |-> 0,
                     start_time |-> now,
                     end_time |-> e.val,
                     max_price_age |-> max_age,
                     is_active |-> TRUE,
                     is_paused |-> FALSE]], 0)

\* ------------------------------------------------------- purchase_tokens
\* #[derive(Accounts)] PurchaseTokens: the constraints on the sale account.
\* The seeds are derived from the supplied token_mint, so a foreign mint
\* misses the sale's address before has_one is looked at.
PurchaseTokensAccounts(mint, oracle) ==
    IF ~sale.exists THEN "AccountNotInitialized"
    ELSE IF mint # "token_mint" THEN "ConstraintSeeds"
    ELSE IF oracle # "pyth_price_update" THEN "InvalidPriceUpdate"
    ELSE "Ok"

\* system_program::transfer(buyer -> treasury, sol_cost)
SystemTransfer(acc, b, sol_cost) ==
    IF acc.lam[b] < sol_cost THEN Err("InsufficientLamports", acc)
    ELSE Ok([acc EXCEPT !.lam[b] = @ - sol_cost,
                        !.treasury = @ + sol_cost], sol_cost)

\* token::transfer(sale_token_vault -> buyer_token_account, token_amount)
VaultTransfer(acc, b, token_amount) ==
    IF acc.vault < token_amount THEN Err("InsufficientFunds", acc)
    ELSE Ok([acc EXCEPT !.vault = @ - token_amount,
                        !.tok[b] = @ + token_amount], 0)

\* init_if_needed: the buyer's record, zero-initialised when it is created.
LoadUserPurchase(acc, b) ==
    IF acc.up[b].exists THEN acc
    ELSE [acc EXCEPT !.up[b] =
            [exists |-> TRUE, user |-> "default", sale |-> "default",
             tokens_purchased |-> 0, sol_contributed |-> 0]]

\* The four counter updates that end purchase_tokens.
UpdateState(acc, b, token_amount, sol_cost) ==
    LET a1 == AddU64(acc.sale.tokens_sold, token_amount)
        a2 == AddU64(acc.sale.total_raised, sol_cost)
        a3 == AddU64(acc.up[b].tokens_purchased, token_amount)
        a4 == AddU64(acc.up[b].sol_contributed, sol_cost)
    IN  IF ~(a1.ok /\ a2.ok /\ a3.ok /\ a4.ok) THEN Err("Panic", acc)
        ELSE Ok([acc EXCEPT !.sale.tokens_sold = a1.val,
                            !.sale.total_raised = a2.val,
                            !.up[b].tokens_purchased = a3.val,
                            !.up[b].sol_contributed = a4.val], sol_cost)

\* The cost in lamports: checked_mul, checked_mul, checked_div.
\* (faulty variant: divides before scaling to lamports)
SolCostDivideFirst(token_amount, token_price_usd, sol_usd_price) ==
    LET usd_cost == CheckedMul(token_amount, token_price_usd) IN
    IF ~usd_cost.some THEN [some |-> FALSE, val |-> 0]
    ELSE LET q == CheckedDiv(usd_cost.val, sol_usd_price) IN
         IF ~q.some THEN [some |-> FALSE, val |-> 0]
         ELSE CheckedMul(q.val, LamportsPerSol)
SolCost(token_amount, token_price_usd, sol_usd_price) ==
    LET usd_cost == CheckedMul(token_amount, token_price_usd) IN
    IF ~usd_cost.some THEN [some |-> FALSE, val |-> 0]
    ELSE LET scaled == CheckedMul(usd_cost.val, LamportsPerSol) IN
         IF ~scaled.some THEN [some |-> FALSE, val |-> 0]
         ELSE CheckedDiv(scaled.val, sol_usd_price)

\* The transfers and the state update, once every check has passed.
\* (faulty variant: the token transfer's error is not propagated)
SettleIgnoringTransferError(acc, b, token_amount, sol_cost) ==
    LET t1 == SystemTransfer(acc, b, sol_cost) IN
    IF t1.res # "Ok" THEN t1
    ELSE LET t2 == VaultTransfer(t1.acc, b, token_amount) IN
         UpdateState(t2.acc, b, token_amount, sol_cost)
Settle(acc, b, token_amount, sol_cost) ==
    LET t1 == SystemTransfer(acc, b, sol_cost) IN
    IF t1.res # "Ok" THEN t1
    ELSE LET t2 == VaultTransfer(t1.acc, b, token_amount) IN
         IF t2.res # "Ok" THEN t2
         ELSE UpdateState(t2.acc, b, token_amount, sol_cost)

\* The user's cumulative limit, then the settlement.
\* (faulty variant: the limit is applied to each purchase on its own)
CheckUserLimitPerPurchase(acc, b, token_amount, sol_cost) ==
    IF ~(token_amount <= acc.sale.max_purchase) THEN Err("ExceedsUserLimit", acc)
    ELSE Settle(acc, b, token_amount, sol_cost)
CheckUserLimit(acc, b, token_amount, sol_cost) ==
    LET u == AddU64(acc.up[b].tokens_purchased, token_amount) IN
    IF ~u.ok THEN Err("Panic", acc)
    ELSE IF ~(u.val <= acc.sale.max_purchase) THEN Err("ExceedsUserLimit", acc)
    ELSE Settle(acc, b, token_amount, sol_cost)

\* The oracle read and the cost computation.
PriceAndCost(acc, b, token_amount, f) ==
    LET o == get_sol_usd_price(f, acc.sale.max_price_age) IN
    IF o.res # "Ok" THEN Err(o.res, acc)
    ELSE LET c == SolCost(token_amount, acc.sale.token_price_usd, o.price) IN
         IF ~c.some THEN Err("MathOverflow", acc)
         ELSE CheckUserLimit(acc, b, token_amount, c.val)

\* The global cap: tokens_sold + token_amount <= max_tokens.
\* (faulty variant: no check against max_tokens)
CheckMaxTokensWithoutCap(acc, b, token_amount, f) ==
    PriceAndCost(acc, b, token_amount, f)
CheckMaxTokens(acc, b, token_amount, f) ==
    LET t == AddU64(acc.sale.tokens_sold, token_amount) IN
    IF ~t.ok THEN Err("Panic", acc)
    ELSE IF ~(t.val <= acc.sale.max_tokens) THEN Err("ExceedsMaxTokens", acc)
    ELSE PriceAndCost(acc, b, token_amount, f)

\* "Validate sale conditions": active, not paused, inside the time window.
\* (faulty variant: is_paused is looked at before is_active)
SaleConditionsPauseFirst(s) ==
    IF s.is_paused THEN "SalePaused"
    ELSE IF ~s.is_active THEN "SaleInactive"
    ELSE IF ~(now >= s.start_time /\ now <= s.end_time) THEN "SaleNotActive"
    ELSE "Ok"
\* (faulty variant: is_paused is not looked at)
SaleConditionsWithoutPause(s) ==
    IF ~s.is_active THEN "SaleInactive"
    ELSE IF ~(now >= s.start_time /\ now <= s.end_time) THEN "SaleNotActive"
    ELSE "Ok"
\* (faulty variant: is_active is not looked at)
SaleConditionsWithoutActive(s) ==
    IF s.is_paused THEN "SalePaused"
    ELSE IF ~(now >= s.start_time /\ now <= s.end_time) THEN "SaleNotActive"
    ELSE "Ok"
SaleConditions(s) ==
    IF ~s.is_active THEN "SaleInactive"
    ELSE IF s.is_paused THEN "SalePaused"
    ELSE IF ~(now >= s.start_time /\ now <= s.end_time) THEN "SaleNotActive"
    ELSE "Ok"

purchase_tokens_handler(b, token_amount, f) ==
    LET acc == LoadUserPurchase(Acc, b) IN
    IF SaleConditions(acc.sale) # "Ok" THEN Err(SaleConditions(acc.sale), acc)
    ELSE IF ~(token_amount >= acc.sale.min_purchase)
    THEN Err("BelowMinimumPurchase", acc)
    ELSE IF ~(token_amount <= acc.sale.max_purchase)
    THEN Err("ExceedsMaximumPurchase", acc)
    ELSE CheckMaxTokens(acc, b, token_amount, f)

\* ---------------------------------------------------------- admin handlers
\* #[derive(Accounts)] TogglePause / EndSale / UpdateSaleParams /
\* WithdrawTokens: the sale's seeds are derived from the signing authority.
AuthorityAccounts(signer) ==
    IF ~sale.exists THEN "AccountNotInitialized"
    ELSE IF signer # sale.authority THEN "ConstraintSeeds"
    ELSE "Ok"

toggle_pause_handler ==
    Ok([Acc EXCEPT !.sale.is_paused = ~@], 0)

end_sale_handler ==
    Ok([Acc EXCEPT !.sale.is_active = FALSE, !.sale.end_time = now], 0)

\* The gate of withdraw_remaining_tokens.
\* (faulty variant: closed from end_time on, not after it)
SaleClosedFromEndTime(s) == ~s.is_active \/ now >= s.end_time
SaleClosed(s) == ~s.is_active \/ now > s.end_time

\* let remaining_tokens = ctx.accounts.sale_token_vault.amount
\* (faulty variant: the unsold allocation instead of the vault balance)
RemainingUnsold(acc) == acc.sale.max_tokens - acc.sale.tokens_sold
RemainingTokens(acc) == acc.vault

\* token::transfer(sale_token_vault -> authority_token_account, amount)
WithdrawTransfer(acc, amount) ==
    IF acc.vault < amount THEN Err("InsufficientFunds", acc)
    ELSE Ok([acc EXCEPT !.vault = @ - amount, !.auth = @ + amount], 0)

withdraw_remaining_tokens_handler ==
    IF ~SaleClosed(Acc.sale) THEN Err("SaleStillActive", Acc)
    ELSE IF RemainingTokens(Acc) > 0
    THEN WithdrawTransfer(Acc, RemainingTokens(Acc))
    ELSE Ok(Acc, 0)

\* Option<u64>: None is the empty tuple, Some(x) is <<x>>.
None == <<>>
Some(x) == <<x>>
IsSome(o) == o # None
OrElse(o, old) == IF IsSome(o) THEN o[1] ELSE old

\* The window of update_sale_params: strictly before start_time.
\* (faulty variant: the window lasts as long as the sale is active)
WhileActive(s) == s.is_active
\* (faulty variant: start_time itself is still inside the window)
BeforeOrAtStart(s) == now <= s.start_time
BeforeStart(s) == now < s.start_time

update_sale_params_handler(new_price_usd, new_max_tokens, new_min_purchase, new_max_purchase, new_max_age) ==
    IF ~BeforeStart(Acc.sale) THEN Err("SaleAlreadyStarted", Acc)
    ELSE IF IsSome(new_price_usd) /\ ~(new_price_usd[1] > 0)
    THEN Err("InvalidPrice", Acc)
    ELSE IF IsSome(new_max_tokens) /\ ~(new_max_tokens[1] > 0)
    THEN Err("InvalidAmount", Acc)
    ELSE IF IsSome(new_min_purchase) /\ ~(new_min_purchase[1] > 0)
    THEN Err("InvalidPurchaseLimit", Acc)
    ELSE IF IsSome(new_max_purchase) /\ ~(new_max_purchase[1] > 0)
    THEN Err("InvalidPurchaseLimit", Acc)
    ELSE IF IsSome(new_max_age)
            /\ ~(new_max_age[1] > 0 /\ new_max_age[1] <= MaxPriceAgeLimit)
    THEN Err("InvalidMaxAge", Acc)
    ELSE LET s == [Acc.sale EXCEPT
                     !.token_price_usd = OrElse(new_price_usd, @),
                     !.max_tokens = OrElse(new_max_tokens, @),
                     !.min_purchase = OrElse(new_min_purchase, @),
                     !.max_purchase = OrElse(new_max_purchase, @),
                     !.max_price_age = OrElse(new_max_age, @)]
         IN  IF ~(s.min_purchase <= s.max_purchase)
             THEN Err("InvalidPurchaseLimit", Acc)
             ELSE Ok([Acc EXCEPT !.sale = s], 0)

\* --------------------------------------------------------- the transaction
\* No transaction result is waiting to be read.
Idle == [op |-> "none", res |-> "Ok"]

\* An instruction's result: its writes are kept when it returns Ok and the
\* whole transaction is rolled back when it returns an error.
Committed(out) == IF out.res = "Ok" THEN out.acc ELSE Acc

ProcessInstruction(op, out) ==
    LET o == out
        c == Committed(o)
    IN  /\ last = Idle
        /\ last' = [op |-> op, res |-> o.res]
        /\ sale' = c.sale
        /\ user_purchase' = c.up
        /\ sale_token_vault' = c.vault
        /\ buyer_token_account' = c.tok
        /\ authority_token_account' = c.auth
        /\ lamports' = c.lam
        /\ treasury' = c.treasury
        /\ UNCHANGED <<now, overflow_checks>>

\* -------------------------------------------------------------- the inputs
\* <<price, max_tokens, min_purchase, max_purchase, sale_duration, max_age>>
ValidInitializeArgs ==
    {<<1, 6, 2, 5, 1, 1>>,
     <<2, MaxU64, 2, MaxU64, MaxI64, MaxPriceAgeLimit>>}
InvalidInitializeArgs ==
    {<<0, 6, 2, 5, 1, 1>>, <<1, 0, 2, 5, 1, 1>>, <<1, 6, 0, 5, 1, 1>>,
     <<1, 6, 2, 1, 1, 1>>, <<1, 6, 2, 5, 0, 1>>, <<1, 6, 2, 5, -1, 1>>,
     <<1, 6, 2, 5, 1, 0>>, <<1, 6, 2, 5, 1, MaxPriceAgeLimit + 1>>}
InitializeArgs ==
    IF sale.exists THEN {<<1, 6, 2, 5, 1, 1>>}
    ELSE ValidInitializeArgs \cup InvalidInitializeArgs
AmountChoices == {1, 2, 3, MaxU64}
\* <<price, exponent, age>> of the price update handed to a purchase
FeedChoices ==
    {<<0, -8, 0>>, <<1, -8, 0>>, <<3, -8, 0>>, <<1, -9, 0>>, <<1, -8, 2>>}
Feed(c) == [price |-> c[1], exponent |-> c[2], publish_time |-> now - c[3]]
Feeds == {Feed(c) : c \in FeedChoices}
\* <<new_price_usd, new_max_tokens, new_min_purchase, new_max_purchase, new_max_age>>
UpdateArgs ==
    {<<None, None, None, None, None>>,
     <<Some(2), None, None, None, None>>,
     <<None, Some(3), None, None, None>>,
     <<None, None, Some(1), None, None>>,
     <<None, None, None, Some(1), None>>,
     <<None, None, None, None, Some(2)>>,
     <<Some(0), Some(0), Some(0), Some(0), Some(0)>>,
     <<Some(1), Some(3), Some(1), Some(3), Some(1)>>}

\* ------------------------------------------------------------- the actions
InitializeSale ==
    \E a \in InitializeArgs :
        /\ ProcessInstruction("initialize_sale",
             IF InitializeSaleAccounts # "Ok" THEN Err(InitializeSaleAccounts, Acc)
             ELSE initialize_sale_handler(a[1], a[2], a[3], a[4], a[5], a[6]))
        /\ UNCHANGED ghosts

PurchaseOutcome(b, token_amount, mint, oracle, f) ==
    IF PurchaseTokensAccounts(mint, oracle) # "Ok"
    THEN Err(PurchaseTokensAccounts(mint, oracle), Acc)
    ELSE purchase_tokens_handler(b, token_amount, f)

PurchaseStep(b, token_amount, mint, oracle, f) ==
    LET out == PurchaseOutcome(b, token_amount, mint, oracle, f) IN
    /\ last = Idle
    /\ out.res = "Ok" =>
         /\ sum_tokens + token_amount <= MaxTotal
         /\ sum_cost + out.cost <= MaxTotal
    /\ ProcessInstruction("purchase_tokens", out)
    /\ sum_tokens' = IF out.res = "Ok" THEN sum_tokens + token_amount ELSE sum_tokens
    /\ sum_cost' = IF out.res = "Ok" THEN sum_cost + out.cost ELSE sum_cost

PurchaseTokens ==
    \E b \in Buyers, token_amount \in AmountChoices, f \in Feeds :
        PurchaseStep(b, token_amount, "token_mint", "pyth_price_update", f)

\* A purchase handed a foreign mint or a foreign price-update account.
PurchaseTokensForeignAccount ==
    \E a \in {<<"other_mint", "pyth_price_update">>, <<"token_mint", "other_price_update">>} :
        PurchaseStep("buyer1", 2, a[1], a[2], Feed(<<1, -8, 0>>))

AdminOutcome(signer, out) ==
    IF AuthorityAccounts(signer) # "Ok" THEN Err(AuthorityAccounts(signer), Acc)
    ELSE out

TogglePause ==
    \E signer \in Signers :
        /\ ProcessInstruction("toggle_pause", AdminOutcome(signer, toggle_pause_handler))
        /\ UNCHANGED ghosts

EndSale ==
    \E signer \in Signers :
        /\ ProcessInstruction("end_sale", AdminOutcome(signer, end_sale_handler))
        /\ UNCHANGED ghosts

WithdrawRemainingTokens ==
    \E signer \in Signers :
        /\ ProcessInstruction("withdraw_remaining_tokens",
                              AdminOutcome(signer, withdraw_remaining_tokens_handler))
        /\ UNCHANGED ghosts

UpdateSaleParams ==
    \E signer \in Signers, a \in UpdateArgs :
        /\ signer # Authority => a = <<None, None, None, None, None>>
        /\ ProcessInstruction("update_sale_params",
             AdminOutcome(signer,
               update_sale_params_handler(a[1], a[2], a[3], a[4], a[5])))
        /\ UNCHANGED ghosts

\* ----------------------------------------------------------- environment
\* The client reads the result of its transaction.
Acknowledge ==
    /\ last # Idle
    /\ last' = Idle
    /\ UNCHANGED <<accounts, now, overflow_checks, ghosts>>

\* The clock advances; it never goes back.
Tick ==
    /\ last = Idle
    /\ sale.exists
    /\ now < MaxTime
    /\ now' = now + 1
    /\ UNCHANGED <<accounts, overflow_checks, last, ghosts>>

\* The authority funds the vault with an ordinary token transfer.
FundVault ==
    \E amount \in {authority_token_account} :
        /\ last = Idle
        /\ amount > 0 /\ amount <= authority_token_account
        /\ authority_token_account' = authority_token_account - amount
        /\ sale_token_vault' = sale_token_vault + amount
        /\ UNCHANGED <<sale, user_purchase, buyer_token_account, lamports,
                       treasury, now, overflow_checks, last, ghosts>>

\* A buyer sends the tokens it holds to the vault's token account.
ReturnTokens ==
    \E b \in Buyers :
        /\ last = Idle
        /\ buyer_token_account[b] > 0
        /\ buyer_token_account' = [buyer_token_account EXCEPT ![b] = 0]
        /\ sale_token_vault' = sale_token_vault + buyer_token_account[b]
        /\ UNCHANGED <<sale, user_purchase, authority_token_account, lamports,
                       treasury, now, overflow_checks, last, ghosts>>

\* The treasury's owner spends what it holds; here it pays a buyer.
TreasuryPays ==
    \E b \in {"buyer1"} :
        /\ last = Idle
        /\ treasury > 0
        /\ lamports' = [lamports EXCEPT ![b] = @ + treasury]
        /\ treasury' = 0
        /\ UNCHANGED <<sale, user_purchase, sale_token_vault, buyer_token_account,
                       authority_token_account, now, overflow_checks, last, ghosts>>

Init ==
    /\ sale = NoSale
    /\ user_purchase = [b \in Buyers |-> NoPurchase]
    /\ sale_token_vault = 0
    /\ buyer_token_account = [b \in Buyers |-> 0]
    /\ authority_token_account = VaultSupply
    /\ lamports = [b \in Buyers |-> BuyerFunds]
    /\ treasury = 0
    /\ now = StartClock
    /\ overflow_checks \in BOOLEAN
    /\ last = Idle
    /\ sum_tokens = 0
    /\ sum_cost = 0

Next ==
    \/ InitializeSale
    \/ PurchaseTokens
    \/ PurchaseTokensForeignAccount
    \/ TogglePause
    \/ EndSale
    \/ WithdrawRemainingTokens
    \/ UpdateSaleParams
    \/ Tick
    \/ FundVault
    \/ ReturnTokens
    \/ TreasuryPays
    \/ Acknowledge

Spec == Init /\ [][Next]_vars

\* ------------------------------------------------- the cost computation
\* Purchases of every amount, at every token price and every feed price, in
\* a running sale whose limits admit them and from buyers who can pay.
CostAmounts == 0..MaxU64
CostFeeds ==
    {Feed(<<p, e, 0>>) : p \in 0..MaxI64,
                         e \in {-NormalizedExponent - 1, -NormalizedExponent,
                                1 - NormalizedExponent}}

\* The sale as initialize_sale(p, MaxU64, 1, MaxU64, MaxTime - StartClock,
\* MaxPriceAgeLimit) creates it at StartClock.
CostSale(p) ==
    [exists |-> TRUE, authority |-> Authority, token_price_usd |-> p,
     max_tokens |-> MaxU64, min_purchase |-> 1, max_purchase |-> MaxU64,
     tokens_sold |-> 0, total_raised |-> 0, start_time |-> StartClock,
     end_time |-> MaxTime, max_price_age |-> MaxPriceAgeLimit,
     is_active |-> TRUE, is_paused |-> FALSE]

CostInit ==
    /\ sale \in {CostSale(p) : p \in 1..MaxU64}
    /\ user_purchase = [b \in Buyers |-> NoPurchase]
    /\ sale_token_vault = MaxU64
    /\ buyer_token_account = [b \in Buyers |-> 0]
    /\ authority_token_account = 0
    /\ lamports = [b \in Buyers |-> MaxU64]
    /\ treasury = 0
    /\ now = StartClock
    /\ overflow_checks \in BOOLEAN
    /\ last = Idle
    /\ sum_tokens = 0
    /\ sum_cost = 0

PurchaseAnyAmount ==
    \E b \in {"buyer1"}, token_amount \in CostAmounts, f \in CostFeeds :
        PurchaseStep(b, token_amount, "token_mint", "pyth_price_update", f)

CostNext ==
    \/ PurchaseAnyAmount
    \/ Acknowledge

CostSpec == CostInit /\ [][CostNext]_vars

\* ================================================================ claims
PurchaseOk == [op |-> "purchase_tokens", res |-> "Ok"]
WithdrawOk == [op |-> "withdraw_remaining_tokens", res |-> "Ok"]
AfterPurchase == last = Idle /\ last' = PurchaseOk
Purchased(up, b) == IF up[b].exists THEN up[b].tokens_purchased ELSE 0
Contributed(up, b) == IF up[b].exists THEN up[b].sol_contributed ELSE 0
LedgerSum == Purchased(user_purchase, "buyer1") + Purchased(user_purchase, "buyer2")
SaleOpen == sale.exists /\ sale.is_active /\ now <= sale.end_time

\* C1: in every reachable state the sale's tokens_sold, a 64-bit unsigned
\* quantity, is at most max_tokens.
GlobalCap ==
    sale.exists =>
        /\ sale.tokens_sold \in 0..MaxU64
        /\ sale.max_tokens \in 0..MaxU64
        /\ sale.tokens_sold <= sale.max_tokens

\* A purchase has just brought tokens_sold up to max_tokens.
GlobalCapReached ==
    /\ last = PurchaseOk
    /\ sale.tokens_sold = sale.max_tokens
    /\ sum_tokens = sale.max_tokens

\* C2: in every reachable state each wallet's cumulative tokens_purchased is
\* at most the sale's max_purchase.
PerWalletCap ==
    \A b \in Buyers :
        user_purchase[b].exists =>
            user_purchase[b].tokens_purchased <= sale.max_purchase

\* A wallet has reached max_purchase with more than one purchase.
PerWalletCapReached ==
    /\ last = PurchaseOk
    /\ \E b \in Buyers :
           /\ user_purchase[b].exists
           /\ user_purchase[b].tokens_purchased = sale.max_purchase
           /\ sale.max_purchase \notin AmountChoices

\* C3: tokens_sold is the sum of the token amounts of all successful purchases
\* and total_raised is the sum of their computed costs.
CounterAccounting ==
    sale.exists =>
        /\ sale.tokens_sold = sum_tokens
        /\ sale.total_raised = sum_cost

\* C4: the per-wallet tokens_purchased values never sum to more than
\* tokens_sold.
LedgerConsistency ==
    sale.exists =>
        LedgerSum <= sale.tokens_sold

\* C5: a purchase that fails at any step, and any purchase whose token
\* transfer cannot be made because the vault holds less than the amount, leaves
\* every account balance, every counter and every per-wallet record as it was.
AtomicSettlement ==
    [][(/\ last = Idle
        /\ last'.op = "purchase_tokens"
        /\ \/ last'.res # "Ok"
           \/ sum_tokens' - sum_tokens > sale_token_vault)
          => UNCHANGED <<accounts, ghosts>>]_vars

\* The token transfer failed after the native transfer had been made.
SettlementRolledBack ==
    /\ last = [op |-> "purchase_tokens", res |-> "InsufficientFunds"]
    /\ sale.exists
    /\ treasury = sum_cost

\* C6: a successful purchase of an amount at a cost moves exactly the cost
\* from the buyer to the treasury and exactly the amount from the vault to the
\* buyer, and raises tokens_sold and the wallet's tokens_purchased by the
\* amount and total_raised and the wallet's sol_contributed by the cost.
TwoLegExchange ==
    [][AfterPurchase =>
          LET amount == sum_tokens' - sum_tokens
              cost == sum_cost' - sum_cost
          IN \E b \in Buyers :
                 /\ lamports' = [lamports EXCEPT ![b] = @ - cost]
                 /\ treasury' = treasury + cost
                 /\ sale_token_vault' = sale_token_vault - amount
                 /\ buyer_token_account' = [buyer_token_account EXCEPT ![b] = @ + amount]
                 /\ sale'.tokens_sold = sale.tokens_sold + amount
                 /\ sale'.total_raised = sale.total_raised + cost
                 /\ user_purchase'[b].tokens_purchased = Purchased(user_purchase, b) + amount
                 /\ user_purchase'[b].sol_contributed = Contributed(user_purchase, b) + cost
                 /\ \A o \in Buyers \ {b} : user_purchase'[o] = user_purchase[o]]_vars

\* C7: the cost charged is floor(amount * token_price_usd * 10^9 / price) in
\* 64-bit unsigned arithmetic; when amount * token_price_usd overflows, when
\* that product times 10^9 overflows, or when the price is zero, the purchase
\* goes no further than the cost computation and the error is MathOverflow.
CostConversion ==
    (last = Idle /\ sale.exists) =>
        \A b \in Buyers, amount \in CostAmounts, f \in CostFeeds :
            LET out == PurchaseOutcome(b, amount, "token_mint", "pyth_price_update", f)
                o == get_sol_usd_price(f, sale.max_price_age)
                product == amount * sale.token_price_usd
                overflow == \/ product > MaxU64
                            \/ product * LamportsPerSol > MaxU64
                            \/ o.price = 0
                before == {"SaleInactive", "SalePaused", "SaleNotActive",
                           "BelowMinimumPurchase", "ExceedsMaximumPurchase",
                           "ExceedsMaxTokens", "PriceTooOld", "InvalidPriceData",
                           "Panic"}
            IN /\ out.res = "Ok" =>
                    /\ ~overflow
                    /\ out.cost = (product * LamportsPerSol) \div o.price
                    /\ out.acc.treasury = treasury + out.cost
                    /\ out.acc.lam[b] = lamports[b] - out.cost
               /\ (o.res = "Ok" /\ overflow) => out.res \in before \cup {"MathOverflow"}
               /\ out.res = "MathOverflow" => (o.res = "Ok" /\ overflow)

\* A purchase was charged a cost that the division rounded down.
CostRoundedDown ==
    /\ last = PurchaseOk
    /\ sum_tokens = 2
    /\ sum_cost = 1
    /\ treasury = 1
    /\ sale.token_price_usd = 1

\* C8: end_sale clears is_active, nothing sets it again, a sale that is ended
\* or past its end_time stays so, and no purchase succeeds in such a sale.
EndedIsTerminal ==
    [][/\ (last = Idle /\ last' = [op |-> "end_sale", res |-> "Ok"]) => ~sale'.is_active
       /\ (sale.exists /\ ~sale.is_active) => ~sale'.is_active
       /\ (sale.exists /\ ~SaleOpen) => ~SaleOpen'
       /\ AfterPurchase => SaleOpen]_vars

\* A purchase was refused in an ended sale whose window was still running.
PurchaseRefusedAfterEnd ==
    /\ last = [op |-> "purchase_tokens", res |-> "SaleInactive"]
    /\ ~sale.is_active
    /\ ~sale.is_paused
    /\ now <= sale.end_time
    /\ sale_token_vault > 0

\* C9: withdraw_remaining_tokens succeeds only when is_active is false or the
\* clock is past end_time; in an active sale inside its window the
\* authority's call fails with SaleStillActive and nobody's call moves tokens.
WithdrawGating ==
    [][/\ (last = Idle /\ last' = WithdrawOk) => (~sale.is_active \/ now > sale.end_time)
       /\ (last = Idle /\ SaleOpen) =>
              /\ AdminOutcome(Authority, withdraw_remaining_tokens_handler).res = "SaleStillActive"
              /\ last'.op = "withdraw_remaining_tokens" =>
                     /\ last'.res # "Ok"
                     /\ UNCHANGED <<sale_token_vault, authority_token_account>>]_vars

\* The authority was refused at the last second of the window, vault funded.
WithdrawRefused ==
    /\ last = [op |-> "withdraw_remaining_tokens", res |-> "SaleStillActive"]
    /\ sale.is_active
    /\ now = sale.end_time
    /\ sale_token_vault > 0

\* C10: a successful withdraw_remaining_tokens moves the vault's whole
\* balance to the authority's token account and changes nothing else; in a
\* closed sale the authority's call succeeds, also when the vault is empty.
WithdrawDrains ==
    [][/\ (last = Idle /\ last' = WithdrawOk) =>
              /\ sale_token_vault' = 0
              /\ authority_token_account' = authority_token_account + sale_token_vault
              /\ UNCHANGED <<sale, user_purchase, buyer_token_account, lamports, treasury>>
       /\ (last = Idle /\ sale.exists /\ ~SaleOpen) =>
              AdminOutcome(Authority, withdraw_remaining_tokens_handler).res = "Ok"]_vars

\* The vault was drained of the tokens that were left after some were sold.
VaultDrained ==
    /\ last = WithdrawOk
    /\ sale_token_vault = 0
    /\ sale.tokens_sold > 0
    /\ authority_token_account = VaultSupply - sale.tokens_sold
    /\ authority_token_account > 0

\* What every purchase made with the sale's own accounts answers in the
\* current state: SalePaused in an active paused sale, never SalePaused in a
\* sale that is not paused.
PausedAnswer ==
    \A b \in Buyers, amount \in AmountChoices, f \in Feeds :
        LET res == PurchaseOutcome(b, amount, "token_mint", "pyth_price_update", f).res
        IN  /\ (sale.is_active /\ sale.is_paused) => res = "SalePaused"
            /\ ~sale.is_paused => res # "SalePaused"

\* C11: in an active, paused sale every purchase_tokens made with the sale's
\* own accounts fails with SalePaused and no purchase changes a counter or a
\* balance; toggle_pause flips is_paused and nothing else, and once the sale
\* is not paused no purchase is refused for being paused. (PausedAnswer is
\* looked at wherever toggle_pause is taken: every state of the sale between
\* two transactions.)
PauseBlocksPurchases ==
    [][/\ (last = Idle /\ sale.exists /\ sale.is_active /\ sale.is_paused
           /\ last'.op = "purchase_tokens") =>
              /\ last'.res # "Ok"
              /\ UNCHANGED <<accounts, ghosts>>
       /\ (last = Idle /\ last' = [op |-> "toggle_pause", res |-> "Ok"]) =>
              /\ PausedAnswer
              /\ sale' = [sale EXCEPT !.is_paused = ~@]
              /\ UNCHANGED <<user_purchase, sale_token_vault, buyer_token_account,
                             authority_token_account, lamports, treasury, ghosts>>]_vars

\* A purchase was refused only because the sale is paused.
PurchaseRefusedWhilePaused ==
    /\ last = [op |-> "purchase_tokens", res |-> "SalePaused"]
    /\ sale.is_active
    /\ sale.is_paused
    /\ now <= sale.end_time
    /\ sale_token_vault > 0
    /\ sum_tokens > 0

\* Every combination of present and absent arguments of update_sale_params,
\* and the argument lists the model submits.
UpdateArgCombos ==
    {<<a, b, c, d, e>> : a \in {None, Some(1)}, b \in {None, Some(1)},
                         c \in {None, Some(1)}, d \in {None, Some(1)},
                         e \in {None, Some(1)}} \cup UpdateArgs

\* C12: whenever now >= start_time, update_sale_params called by the authority
\* fails with SaleAlreadyStarted for every combination of present and absent
\* arguments, and leaves every field of the Sale as it was.
UpdateWindow ==
    (last = Idle /\ sale.exists /\ now >= sale.start_time) =>
        \A a \in UpdateArgCombos :
            LET out == AdminOutcome(Authority,
                         update_sale_params_handler(a[1], a[2], a[3], a[4], a[5]))
            IN  /\ out.res = "SaleAlreadyStarted"
                /\ Committed(out).sale = sale

\* An update was refused at the very second the sale started.
UpdateRefusedAtStart ==
    /\ last = [op |-> "update_sale_params", res |-> "SaleAlreadyStarted"]
    /\ now = sale.start_time
    /\ sale.is_active

\* C13: after every successful instruction the Sale's end_time is greater
\* than its start_time.
TimeWindow ==
    sale.exists => sale.end_time > sale.start_time

\* C14: every successful purchase_tokens leaves tokens_sold and total_raised
\* strictly greater than they were, and no other step lowers either counter.
StrictMonotonicity ==
    [][/\ AfterPurchase =>
              /\ sale'.tokens_sold > sale.tokens_sold
              /\ sale'.total_raised > sale.total_raised
       /\ (sale.exists /\ ~AfterPurchase) =>
              /\ sale'.tokens_sold >= sale.tokens_sold
              /\ sale'.total_raised >= sale.total_raised]_vars

\* What toggle_pause, end_sale, withdraw_remaining_tokens and
\* update_sale_params answer to a signer in the current state.
AdminOutcomes(signer) ==
    {AdminOutcome(signer, toggle_pause_handler),
     AdminOutcome(signer, end_sale_handler),
     AdminOutcome(signer, withdraw_remaining_tokens_handler)}
    \cup {AdminOutcome(signer, update_sale_params_handler(a[1], a[2], a[3], a[4], a[5])) :
              a \in UpdateArgs}

\* C15: the four administrative instructions, invoked by a signer other than
\* the sale's authority, fail with Unauthorized and change neither the Sale
\* record nor any balance.
AuthorityOnly ==
    (last = Idle /\ sale.exists) =>
        \A signer \in Signers \ {sale.authority} :
            \A out \in AdminOutcomes(signer) :
                /\ out.res = "Unauthorized"
                /\ Committed(out) = Acc

\* The accounts a purchase may be handed: the sale's mint and price-update
\* account or foreign ones.
PurchaseAccountChoices ==
    {<<m, o>> : m \in {"token_mint", "other_mint"},
                o \in {"pyth_price_update", "other_price_update"}}

\* The checks of a purchase in the order the program makes them, each with
\* the error it reports: the account constraints, then the handler's guards.
\* "Ok" when every check passes.
FirstFailure(b, amount, mint, oracle, f) ==
    LET sold == AddU64(sale.tokens_sold, amount)
        o == get_sol_usd_price(f, sale.max_price_age)
        c == SolCost(amount, sale.token_price_usd, o.price)
        mine == AddU64(Purchased(user_purchase, b), amount)
    IN  IF mint # "token_mint" THEN "ConstraintSeeds"
        ELSE IF oracle # "pyth_price_update" THEN "InvalidPriceUpdate"
        ELSE IF ~sale.is_active THEN "SaleInactive"
        ELSE IF sale.is_paused THEN "SalePaused"
        ELSE IF now < sale.start_time \/ now > sale.end_time THEN "SaleNotActive"
        ELSE IF amount < sale.min_purchase THEN "BelowMinimumPurchase"
        ELSE IF amount > sale.max_purchase THEN "ExceedsMaximumPurchase"
        ELSE IF ~sold.ok THEN "Panic"
        ELSE IF sold.val > sale.max_tokens THEN "ExceedsMaxTokens"
        ELSE IF o.res # "Ok" THEN o.res
        ELSE IF ~c.some THEN "MathOverflow"
        ELSE IF ~mine.ok THEN "Panic"
        ELSE IF mine.val > sale.max_purchase THEN "ExceedsUserLimit"
        ELSE "Ok"

\* The same checks in the order of the contract: the handler's lifecycle
\* guards before the two account checks.
FirstFailureByContract(b, amount, mint, oracle, f) ==
    IF ~sale.is_active THEN "SaleInactive"
    ELSE IF sale.is_paused THEN "SalePaused"
    ELSE IF now < sale.start_time \/ now > sale.end_time THEN "SaleNotActive"
    ELSE IF mint # "token_mint" THEN "InvalidTokenMint"
    ELSE IF oracle # "pyth_price_update" THEN "InvalidPriceUpdate"
    ELSE FirstFailure(b, amount, mint, oracle, f)

\* No lamports and no tokens have been moved by the time the call returns.
NoTransferAttempted(out) ==
    /\ out.acc.lam = lamports
    /\ out.acc.treasury = treasury
    /\ out.acc.vault = sale_token_vault
    /\ out.acc.tok = buyer_token_account

NoCounterOverflow ==
    (last = Idle /\ sale.exists) =>
        \A b \in Buyers, amount \in AmountChoices, f \in Feeds :
            LET cost == SolCost(amount, sale.token_price_usd,
                                get_sol_usd_price(f, sale.max_price_age).price).val
                reached ==
                    /\ FirstFailure(b, amount, "token_mint", "pyth_price_update", f) = "Ok"
                    /\ lamports[b] >= cost
                    /\ sale_token_vault >= amount
            IN  reached =>
                    /\ sale.tokens_sold + amount <= MaxU64
                    /\ sale.total_raised + cost <= MaxU64
                    /\ Purchased(user_purchase, b) + amount <= MaxU64
                    /\ Contributed(user_purchase, b) + cost <= MaxU64

\* C18: for a fresh feed with price p and exponent e, get_sol_usd_price
\* answers InvalidPriceData when p <= 0, p * 10^(e+8) when e >= -8 and the
\* product fits the unsigned width, MathOverflow when it does not fit, and
\* floor(p / 10^(-e-8)) when e < -8.
OracleNormalization ==
    (last = Idle /\ sale.exists) =>
        \A f \in CostFeeds :
            LET o == get_sol_usd_price(f, sale.max_price_age)
                k == f.exponent + NormalizedExponent
            IN  IF f.price <= 0 THEN o.res = "InvalidPriceData"
                ELSE IF k >= 0
                THEN IF f.price * 10^k <= MaxU64
                     THEN o.res = "Ok" /\ o.price = f.price * 10^k
                     ELSE o.res = "MathOverflow"
                ELSE o.res = "Ok" /\ o.price = f.price \div 10^(-k)

\* C19: a buyer's UserPurchase record names the buyer in `user` and the sale
\* in `sale` from the buyer's first successful purchase on.
UserPurchaseBinding ==
    \A b \in Buyers :
        user_purchase[b].exists =>
            /\ user_purchase[b].user = b
            /\ user_purchase[b].sale = "sale"

\* The five parameters of a sale that update_sale_params may write.
Params(s) ==
    <<s.token_price_usd, s.max_tokens, s.min_purchase, s.max_purchase, s.max_price_age>>

\* C20: the Sale is created with the parameters passed to initialize_sale;
\* from then on no step changes token_price_usd, max_tokens, min_purchase,
\* max_purchase or max_price_age, no update_sale_params succeeds, and
\* 0 < min_purchase <= max_purchase, token_price_usd > 0 and max_tokens > 0.
ParamsFrozen ==
    [][/\ (~sale.exists /\ sale'.exists) =>
              /\ last' = [op |-> "initialize_sale", res |-> "Ok"]
              /\ \E a \in InitializeArgs :
                     /\ initialize_sale_handler(a[1], a[2], a[3], a[4], a[5], a[6]).res = "Ok"
                     /\ Params(sale') = <<a[1], a[2], a[3], a[4], a[6]>>
       /\ sale.exists => Params(sale') = Params(sale)
       /\ (last = Idle /\ last'.op = "update_sale_params") => last'.res # "Ok"
       /\ sale'.exists =>
              /\ 0 < sale'.min_purchase
              /\ sale'.min_purchase <= sale'.max_purchase
              /\ sale'.token_price_usd > 0
              /\ sale'.max_tokens > 0]_vars

\* An update was refused in a running sale that has sold tokens; the sale
\* still has the parameters it was created with.
UpdateRefusedAfterSales ==
    /\ last = [op |-> "update_sale_params", res |-> "SaleAlreadyStarted"]
    /\ now > sale.start_time
    /\ sum_tokens > 0
    /\ Params(sale) = <<1, 6, 2, 5, 1>>

====
